---------------------------- MODULE Spec2Model ----------------------------
(***************************************************************************)
(* Model of the PBS job adaptor of saga-python                             *)
(* (saga/adaptors/pbs/pbsjob.py) and of the job API object that forwards   *)
(* to it (saga/job/job.py).                                                *)
(*                                                                         *)
(* One job service (PBSJobService) and one job handle (PBSJob) are         *)
(* modelled.  Python strings are TLA+ strings; a Python reference that may *)
(* be None is the empty tuple (None) or a one-element tuple (Some(v)).     *)
(* The remote shell is the environment: every run_sync returns an exit     *)
(* code and an output chosen from small sets of texts.                     *)
(***************************************************************************)
EXTENDS Integers, Sequences, FiniteSets, TLC

(***************************************************************************)
(* Bounds of the model.                                                    *)
(***************************************************************************)
MaxSubmits == 2    \* successful qsub runs explored per service
MaxTimeout == 2    \* largest wait timeout explored, in poll intervals
MaxLatency == 1    \* longest duration of one remote command, in poll intervals
MaxTasks == 2      \* asynchronous calls that can be running at a time

(***************************************************************************)
(* Python values.                                                          *)
(***************************************************************************)
None == << >>
Some(v) == << v >>
Val(o) == o[1]

\* saga.job.constants, imported by pbsjob.py
\* saga.job.NEW; NEW is a reserved word of TLA+
NEWSTATE == "New"
PENDING  == "Pending"
RUNNING  == "Running"
DONE     == "Done"
FAILED   == "Failed"
CANCELED == "Canceled"
UNKNOWN  == "Unknown"

\* job description attribute names (saga.job.constants)
NAME              == "Name"
EXECUTABLE        == "Executable"
ARGUMENTS         == "Arguments"
ENVIRONMENT       == "Environment"
INPUT             == "Input"
OUTPUT            == "Output"
ERROR             == "Error"
QUEUE             == "Queue"
PROJECT           == "Project"
WALL_TIME_LIMIT   == "WallTimeLimit"
WORKING_DIRECTORY == "WorkingDirectory"
TOTAL_CPU_COUNT   == "TotalCPUCount"
JOB_CONTACT       == "JobContact"
SPMD_VARIATION    == "SPMDVariation"

(***************************************************************************)
(* Python string functions used by the adaptor.                            *)
(***************************************************************************)
IsSpace(c) == c \in {" ", "\n", "\t", "\r"}

RECURSIVE LStrip(_)
LStrip(s) == IF Len(s) > 0 /\ IsSpace(Head(s)) THEN LStrip(Tail(s)) ELSE s

RECURSIVE RStrip(_)
RStrip(s) ==
    IF Len(s) > 0 /\ IsSpace(SubSeq(s, Len(s), Len(s)))
    THEN RStrip(SubSeq(s, 1, Len(s) - 1))
    ELSE s

\* str.strip()
Strip(s) == RStrip(LStrip(s))

\* the characters a..b of s, clipped to s as a Python slice is
Slice(s, a, b) ==
    LET lo == IF a < 1 THEN 1 ELSE a
        hi == IF b > Len(s) THEN Len(s) ELSE b
    IN  IF lo > hi THEN "" ELSE SubSeq(s, lo, hi)

\* position of the first occurrence of sep in s at or after i, 0 if none
RECURSIVE Find(_, _, _)
Find(s, sep, i) ==
    IF i + Len(sep) - 1 > Len(s) THEN 0
    ELSE IF Slice(s, i, i + Len(sep) - 1) = sep THEN i
    ELSE Find(s, sep, i + 1)

\* str.split(sep): the list of the pieces of s between occurrences of sep
RECURSIVE Split(_, _)
Split(s, sep) ==
    LET i == Find(s, sep, 1)
    IN  IF i = 0 THEN << s >>
        ELSE << Slice(s, 1, i - 1) >>
             \o Split(Slice(s, i + Len(sep), Len(s)), sep)

\* position of the first whitespace character of s at or after i, 0 if none
RECURSIVE FindSpace(_, _)
FindSpace(s, i) ==
    IF i > Len(s) THEN 0
    ELSE IF IsSpace(Slice(s, i, i)) THEN i
    ELSE FindSpace(s, i + 1)

\* the first word of s, which does not start with whitespace, ends before i
RECURSIVE Words(_)
WordsFrom(s, i) ==
    IF i = 0 THEN << s >>
    ELSE << Slice(s, 1, i - 1) >> \o Words(Slice(s, i, Len(s)))

\* str.split() with no separator: the words between runs of whitespace
WordsOf(s) == IF s = "" THEN << >> ELSE WordsFrom(s, FindSpace(s, 1))

Words(s) == WordsOf(LStrip(s))


(***************************************************************************)
(* Python number formatting and parsing.                                   *)
(***************************************************************************)
Digits == "0123456789"

RECURSIVE str(_)
str(n) ==
    IF n < 0 THEN "-" \o str(0 - n)
    ELSE IF n < 10 THEN Slice(Digits, n + 1, n + 1)
    ELSE str(n \div 10) \o Slice(Digits, (n % 10) + 1, (n % 10) + 1)

\* int(s) of a string of decimal digits
RECURSIVE int(_)
int(s) ==
    IF Len(s) = 0 THEN 0
    ELSE 10 * int(Slice(s, 1, Len(s) - 1))
         + (Find(Digits, Slice(s, Len(s), Len(s)), 1) - 1)

(***************************************************************************)
(* Exceptions: the Python exception class and its message.                 *)
(***************************************************************************)
NoExc == [type |-> "", msg |-> ""]
Exc(type, msg) == [type |-> type, msg |-> msg]

(***************************************************************************)
(* _pbs_to_saga_jobstate: translates a pbs one-letter state to saga.       *)
(***************************************************************************)
\* the translation taking an exiting job (E) for a finished one
_pbs_to_saga_jobstate_exitingIsDone(pbsjs) ==
    CASE pbsjs = "C" -> DONE
      [] pbsjs = "E" -> DONE
      [] pbsjs = "H" -> PENDING
      [] pbsjs = "Q" -> PENDING
      [] pbsjs = "R" -> RUNNING
      [] pbsjs = "T" -> RUNNING
      [] pbsjs = "W" -> PENDING
      [] pbsjs = "S" -> PENDING
      [] pbsjs = "X" -> CANCELED
      [] OTHER       -> UNKNOWN

_pbs_to_saga_jobstate(pbsjs) ==
    CASE pbsjs = "C" -> DONE
      [] pbsjs = "E" -> RUNNING
      [] pbsjs = "H" -> PENDING
      [] pbsjs = "Q" -> PENDING
      [] pbsjs = "R" -> RUNNING
      [] pbsjs = "T" -> RUNNING
      [] pbsjs = "W" -> PENDING
      [] pbsjs = "S" -> PENDING
      [] pbsjs = "X" -> CANCELED
      [] OTHER       -> UNKNOWN

(***************************************************************************)
(* Adaptor.parse_id: matches id against the regular expression id_re, an   *)
(* anchored pattern of two bracketed groups joined by a hyphen, the first  *)
(* greedy and the second not.  A group matches any characters but a        *)
(* newline; the end anchor matches at the end of the string and before a   *)
(* newline that ends the string.  The first group being greedy, the match  *)
(* uses the last "]-[" after which the rest matches.                       *)
(***************************************************************************)
HasNewline(s) == Find(s, "\n", 1) # 0

\* the end of the string, not counting a newline that ends it
DollarEnd(s) ==
    IF Len(s) > 0 /\ Slice(s, Len(s), Len(s)) = "\n" THEN Len(s) - 1 ELSE Len(s)

\* the positions in rest at which the closing bracket of the second group can be
IdTailEnds(rest) ==
    { j \in 1..Len(rest) :
        /\ Slice(rest, j, j) = "]"
        /\ j \in {Len(rest), DollarEnd(rest)}
        /\ ~ HasNewline(Slice(rest, 1, j - 1)) }

\* the positions of "]-[" at which the whole pattern matches
IdSplits(id) ==
    { i \in 2..Len(id) :
        /\ Slice(id, 1, 1) = "["
        /\ Slice(id, i, i + 2) = "]-["
        /\ ~ HasNewline(Slice(id, 2, i - 1))
        /\ IdTailEnds(Slice(id, i + 3, Len(id))) # {} }

SetMax(S) == CHOOSE x \in S : \A y \in S : y <= x
SetMin(S) == CHOOSE x \in S : \A y \in S : x <= y

\* the second group: rest up to the first position the pattern can end at
IdTail(rest) == Slice(rest, 1, SetMin(IdTailEnds(rest)) - 1)

\* the two groups of the match that splits s at position i
IdGroups(s, i) == << Slice(s, 2, i - 1), IdTail(Slice(s, i + 3, Len(s))) >>

\* id_re.match(s): None, or the two groups of the match
id_re_match(s) ==
    IF IdSplits(s) = {} THEN None
    ELSE Some(IdGroups(s, SetMax(IdSplits(s))))

(***************************************************************************)
(* The remote shell.  A response is what run_sync returns: the exit code   *)
(* and the output.  A command issued is recorded as the tool, its argument *)
(* and the exit code the shell returned for it.                            *)
(***************************************************************************)
Cmd(tool, arg, ret) == [tool |-> tool, arg |-> arg, ret |-> ret]

(***************************************************************************)
(* _job_get_info, lines 453-478: parsing of the egrep result.              *)
(***************************************************************************)
NoInfo == [job_state   |-> None, exec_hosts  |-> None, exit_status |-> None,
           create_time |-> None, start_time  |-> None, end_time    |-> None]

\* lines 464-475: the field that key names takes val
SetField(info, key, val) ==
    CASE key = "job_state" ->
           [info EXCEPT !.job_state = Some(_pbs_to_saga_jobstate(val))]
      [] key = "exec_host" ->
           [info EXCEPT !.exec_hosts = Some(Split(val, "+"))]
      [] key = "exit_status" ->
           [info EXCEPT !.exit_status = Some(val)]
      [] key = "ctime" ->
           [info EXCEPT !.create_time = Some(val)]
      [] key = "start_time" ->
           [info EXCEPT !.start_time = Some(val)]
      [] key = "comp_time" ->
           [info EXCEPT !.end_time = Some(val)]
      [] OTHER -> info

\* the parse taking key and value of a line with more than one '=' as well
ParseSplit_atLeastTwo(info, kv) ==
    IF Len(kv) < 2 THEN info
    ELSE SetField(info, Strip(kv[1]), Strip(kv[2]))

\* lines 459-462: kv is result.split('=')
ParseSplit(info, kv) ==
    IF Len(kv) # 2 THEN info
    ELSE SetField(info, Strip(kv[1]), Strip(kv[2]))

ParseResult(info, result) == ParseSplit(info, Split(result, "="))

RECURSIVE ParseResults(_, _)
ParseResults(info, results) ==
    IF results = << >> THEN info
    ELSE ParseResults(ParseResult(info, Head(results)), Tail(results))

ParseOutput(out) == ParseResults(NoInfo, Split(out, "\n"))

(***************************************************************************)
(* A job description: every attribute is None or Some(value).  arguments   *)
(* is a list of strings, environment a list of (key, value) pairs in the   *)
(* iteration order of the dictionary.                                      *)
(***************************************************************************)
AttributeName ==
    [name              |-> NAME,
     executable        |-> EXECUTABLE,
     arguments         |-> ARGUMENTS,
     environment       |-> ENVIRONMENT,
     input             |-> INPUT,
     output            |-> OUTPUT,
     error             |-> ERROR,
     queue             |-> QUEUE,
     project           |-> PROJECT,
     wall_time_limit   |-> WALL_TIME_LIMIT,
     working_directory |-> WORKING_DIRECTORY,
     total_cpu_count   |-> TOTAL_CPU_COUNT,
     job_contact       |-> JOB_CONTACT,
     spmd_variation    |-> SPMD_VARIATION]

EmptyDescription == [f \in DOMAIN AttributeName |-> None]

\* jd.list_attributes(): the names of the attributes that are set
list_attributes(jd) == { AttributeName[f] : f \in { g \in DOMAIN jd : jd[g] # None } }

(***************************************************************************)
(* _pbscript_generator: generates a PBS script from a job description.     *)
(***************************************************************************)
RECURSIVE ArgsText(_)
ArgsText(args) ==
    IF args = << >> THEN ""
    ELSE Head(args) \o " " \o ArgsText(Tail(args))

RECURSIVE VariableList(_)
VariableList(env) ==
    IF env = << >> THEN ""
    ELSE Head(env)[1] \o "=" \o Head(env)[2] \o "," \o VariableList(Tail(env))

\* lines 92-96
WallTimeDirective(wall_time_limit) ==
    LET hours   == wall_time_limit \div 60
        minutes == wall_time_limit % 60
    IN  "#PBS -l walltime=" \o str(hours) \o ":" \o str(minutes) \o ":00 \n"

\* Nodes that adds a node even when ppn divides tcc
Nodes_alwaysOneMore(tcc, ppn) == (tcc \div ppn) + 1

\* lines 113-121; ppn is the text found by initialize
\* int(tbd) is tcc div ppn, and tbd > int(tbd) iff ppn does not divide tcc
Nodes(tcc, ppn) ==
    IF tcc % ppn # 0 THEN (tcc \div ppn) + 1 ELSE tcc \div ppn

NodesDirective(total_cpu_count, ppn) ==
    "#PBS -l nodes=" \o str(Nodes(total_cpu_count, int(ppn)))
        \o ":ppn=" \o ppn \o " \n"

Line(o, text) == IF o = None THEN "" ELSE text

_pbscript_generator(jd, ppn, is_cray) ==
    LET exec_n_args ==
            Line(jd.executable, Val(jd.executable) \o " ")
            \o Line(jd.arguments, ArgsText(Val(jd.arguments)))
        pbs_params ==
            Line(jd.name, "#PBS -N " \o Val(jd.name) \o " \n")
            \o "#PBS -V     \n"
            \o Line(jd.environment,
                    "#PBS -v " \o VariableList(Val(jd.environment)) \o " \n")
            \o Line(jd.working_directory,
                    "#PBS -d " \o Val(jd.working_directory) \o " \n")
            \o Line(jd.output, "#PBS -o " \o Val(jd.output) \o " \n")
            \o Line(jd.error, "#PBS -e " \o Val(jd.error) \o " \n")
            \o Line(jd.wall_time_limit,
                    WallTimeDirective(Val(jd.wall_time_limit)))
            \o Line(jd.queue, "#PBS -q " \o Val(jd.queue) \o " \n")
            \o Line(jd.project, "#PBS -A " \o Val(jd.project) \o " \n")
            \o Line(jd.job_contact, "#PBS -m abe \n")
            \o (IF is_cray
                THEN Line(jd.total_cpu_count,
                          "#PBS -l size=" \o str(Val(jd.total_cpu_count)) \o " \n")
                ELSE Line(jd.total_cpu_count,
                          NodesDirective(Val(jd.total_cpu_count), ppn)))
    IN  "\n#!/bin/bash \n" \o pbs_params \o exec_n_args


(***************************************************************************)
(* _ADAPTOR_CAPABILITIES["jdes_attributes"]                                *)
(***************************************************************************)
\* jdes_attributes with the attribute the script generator also reads
jdes_attributes_withJobContact ==
    {NAME, EXECUTABLE, ARGUMENTS, ENVIRONMENT, INPUT, OUTPUT, ERROR, QUEUE,
     PROJECT, WALL_TIME_LIMIT, WORKING_DIRECTORY, TOTAL_CPU_COUNT, JOB_CONTACT}

jdes_attributes ==
    {NAME, EXECUTABLE, ARGUMENTS, ENVIRONMENT, INPUT, OUTPUT, ERROR, QUEUE,
     PROJECT, WALL_TIME_LIMIT, WORKING_DIRECTORY, TOTAL_CPU_COUNT}

\* create_job, lines 544-548: the attributes the loop can raise for
Unsupported(jd) == { a \in list_attributes(jd) : a \notin jdes_attributes }

(***************************************************************************)
(* The inputs of the operations and the responses of the shell.            *)
(***************************************************************************)
Timeouts == -1..MaxTimeout

\* iterations of the wait loop explored: enough for every timeout to expire
MaxPolls == MaxTimeout + 2

JobDescriptions ==
    { [EmptyDescription EXCEPT !.executable = Some("/bin/sleep"),
                               !.arguments = Some(<< "10" >>),
                               !.wall_time_limit = Some(125),
                               !.total_cpu_count = Some(17)],
      [EmptyDescription EXCEPT !.executable = Some("/bin/date"),
                               !.job_contact = Some("a@b")],
      [EmptyDescription EXCEPT !.executable = Some("/bin/date"),
                               !.job_contact = Some("a@b"),
                               !.spmd_variation = Some("MPI")] }

\* qsub prints the id of the new job; the scheduler numbers its jobs
QsubResponses(njobs) ==
    { [ret |-> 0, out |-> str(7 + njobs) \o ".srv\n"],
      [ret |-> 1, out |-> "qsub: submit error"] }

QstatResponses ==
    { [ret |-> 0, out |-> "    job_state = Q\n    ctime = Mon\n"],
      [ret |-> 0, out |-> "    job_state = R\n    exec_host = a/0+a/1\n"
                          \o "    ctime = Mon\n    start_time = Tue\n"],
      [ret |-> 0, out |-> "    job_state = C\n    exec_host = a/0+a/1\n"
                          \o "    exit_status = 0\n    ctime = Mon\n"
                          \o "    start_time = Tue\n    comp_time = Wed\n"],
      [ret |-> 0, out |-> "    job_state = X\n"],
      [ret |-> 0, out |-> "    job_state = U\n"],
      [ret |-> 0, out |-> "    ctime = Mon\n"],
      [ret |-> 1, out |-> "qstat: Unknown Job Id"] }

QdelResponses ==
    { [ret |-> 0, out |-> ""],
      [ret |-> 1, out |-> "qdel: Unknown Job Id"] }

\* qstat -a -u `whoami` | grep `whoami`: the jobs of the user, one per line;
\* grep exits 1 when no line matches
ListResponses ==
    { [ret |-> 0, out |-> "7.srv  alice  batch  sleep  R\n"],
      [ret |-> 0, out |-> "7.srv  alice  batch  sleep  C\n"
                          \o "8.srv  alice  batch  sleep  Q\n"],
      [ret |-> 1, out |-> ""] }

(***************************************************************************)
(* The service endpoint (rm_url) and the identifier _job_run builds from   *)
(* it and the output of qsub.                                              *)
(***************************************************************************)
Endpoint == "pbs://h/"

job_id(rm, out) == "[" \o rm \o "]-[" \o Strip(out) \o "]"

(***************************************************************************)
(* The texts of the model are few: the match of each identifier and the    *)
(* parse of each qstat output are evaluated once and looked up.            *)
(***************************************************************************)
IdTexts ==
    { job_id(Endpoint, r.out) :
        r \in UNION { QsubResponses(n) : n \in 0..(MaxSubmits + 1) } }

IdMatch == [s \in IdTexts |-> id_re_match(s)]

QstatInfo == [out \in { r.out : r \in QstatResponses } |-> ParseOutput(out)]

\* Adaptor.parse_id(id): the exception raised (or NoExc) and the two parts
Parsed(id, match) ==
    IF match = None
    THEN [exc |-> Exc("BadParameter", "Cannot parse job id '" \o id \o "'"),
          rm |-> "", pid |-> ""]
    ELSE [exc |-> NoExc, rm |-> Val(match)[1], pid |-> Val(match)[2]]

parse_id(id) ==
    IF id = None
    THEN [exc |-> Exc("TypeError", "expected string or buffer"),
          rm |-> "", pid |-> ""]
    ELSE Parsed(Val(id), IdMatch[Val(id)])

(***************************************************************************)
(* _job_get_info(id): r is the response of the shell to the qstat command, *)
(* used only if the command is issued.  The result is the exception raised *)
(* (or NoExc), the commands issued and the tuple returned.                 *)
(***************************************************************************)
\* lines 444-478: p is what parse_id returned
QueryInfo(p, r) ==
    IF p.exc # NoExc
    THEN [exc |-> p.exc, cmds |-> << >>, info |-> NoInfo]
    ELSE IF r.ret # 0
    THEN [exc  |-> Exc("NoSuccess",
                       "Error retrieving job info via 'qstat': " \o r.out),
          cmds |-> << Cmd("qstat", p.pid, r.ret) >>,
          info |-> NoInfo]
    ELSE [exc  |-> NoExc,
          cmds |-> << Cmd("qstat", p.pid, r.ret) >>,
          info |-> QstatInfo[r.out]]

_job_get_info(id, r) == QueryInfo(parse_id(id), r)


(***************************************************************************)
(* PBSJob.init_instance: the fields of a new job handle.                   *)
(***************************************************************************)
init_instance(jd) ==
    [jd               |-> jd,
     _id              |-> None,
     _state           |-> Some(NEWSTATE),
     _exit_code       |-> None,
     _exception       |-> None,
     _created         |-> None,
     _started         |-> None,
     _finished        |-> None,
     _execution_hosts |-> None]

\* no handle has been created yet
NoJob == [absent |-> TRUE]

(***************************************************************************)
(* The operations of PBSJobService and PBSJob as functions of the handle   *)
(* j, the service js and the response r of the shell to the one command    *)
(* the operation can issue.  Each yields the handle (and service) after    *)
(* the call, the commands issued, the value returned and the exception     *)
(* raised (NoExc if none).                                                 *)
(***************************************************************************)
Result(j, cmds, ret, exc) == [job |-> j, cmds |-> cmds, ret |-> ret, exc |-> exc]

\* _job_run
\* _job_run counting the job before it tests the exit code of qsub
Submit_countsFailure(js, script, r) ==
    IF r.ret # 0
    THEN [js   |-> [js EXCEPT !.njobs = @ + 1],
          cmds |-> << Cmd("qsub", script, r.ret) >>,
          ret  |-> None,
          exc  |-> Exc("NoSuccess",
                       "Error running 'qsub': " \o r.out
                       \o ". Script was: " \o script)]
    ELSE [js   |-> [js EXCEPT !.njobs = @ + 1],
          cmds |-> << Cmd("qsub", script, r.ret) >>,
          ret  |-> Some(job_id(js.rm, r.out)),
          exc  |-> NoExc]

\* lines 414-427: script is what _pbscript_generator returned
Submit(js, script, r) ==
    IF r.ret # 0
    THEN [js   |-> js,
          cmds |-> << Cmd("qsub", script, r.ret) >>,
          ret  |-> None,
          exc  |-> Exc("NoSuccess",
                       "Error running 'qsub': " \o r.out
                       \o ". Script was: " \o script)]
    ELSE [js   |-> [js EXCEPT !.njobs = @ + 1],
          cmds |-> << Cmd("qsub", script, r.ret) >>,
          ret  |-> Some(job_id(js.rm, r.out)),
          exc  |-> NoExc]

_job_run(js, jd, r) ==
    Submit(js, _pbscript_generator(jd, js.ppn, js.is_cray), r)

\* _job_cancel
\* lines 505-510: p is what parse_id returned
Delete(p, r) ==
    IF p.exc # NoExc THEN [exc |-> p.exc, cmds |-> << >>]
    ELSE IF r.ret # 0
    THEN [exc  |-> Exc("NoSuccess",
                       "Error canceling job via 'qdel': " \o r.out),
          cmds |-> << Cmd("qdel", p.pid, r.ret) >>]
    ELSE [exc |-> NoExc, cmds |-> << Cmd("qdel", p.pid, r.ret) >>]

_job_cancel(id, r) == Delete(parse_id(id), r)

\* IsFinal without DONE
IsFinal_withoutDone(state) ==
    state = Some(CANCELED) \/ state = Some(FAILED)

\* get_state, lines 668-669: the state is considered final
IsFinal(state) ==
    state = Some(CANCELED) \/ state = Some(FAILED) \/ state = Some(DONE)

\* get_state reporting a failed query as UNKNOWN instead of raising
StoreState_unknownOnError(j, g) ==
    IF g.exc = NoExc
    THEN Result([j EXCEPT !._state = g.info.job_state],
                g.cmds, g.info.job_state, NoExc)
    ELSE IF j._id = None
    THEN Result(j, g.cmds, j._state, NoExc)
    ELSE Result([j EXCEPT !._state = Some(UNKNOWN)],
                g.cmds, Some(UNKNOWN), NoExc)

\* get_state, lines 672-679: g is the outcome of _job_get_info
StoreState(j, g) ==
    IF g.exc = NoExc
    THEN Result([j EXCEPT !._state = g.info.job_state],
                g.cmds, g.info.job_state, NoExc)
    ELSE IF j._id = None
    THEN Result(j, g.cmds, j._state, NoExc)
    ELSE Result(j, g.cmds, None, g.exc)

\* PBSJob.get_state
get_state(j, r) ==
    IF IsFinal(j._state)
    THEN Result(j, << >>, j._state, NoExc)
    ELSE StoreState(j, _job_get_info(j._id, r))

\* PBSJob.get_id
get_id(j) == Result(j, << >>, j._id, NoExc)

\* get_exit_code: g is the outcome of _job_get_info
Store_exit_code(j, g) ==
    IF g.exc # NoExc THEN Result(j, g.cmds, None, g.exc)
    ELSE Result([j EXCEPT !._exit_code = g.info.exit_status],
                g.cmds, g.info.exit_status, NoExc)

\* PBSJob.get_exit_code, with _job_get_exit_code
get_exit_code(j, r) ==
    IF j._exit_code # None
    THEN Result(j, << >>, j._exit_code, NoExc)
    ELSE Store_exit_code(j, _job_get_info(j._id, r))

\* get_created: g is the outcome of _job_get_info
Store_created(j, g) ==
    IF g.exc # NoExc THEN Result(j, g.cmds, None, g.exc)
    ELSE Result([j EXCEPT !._created = g.info.create_time],
                g.cmds, g.info.create_time, NoExc)

\* get_created that asks the scheduler even when the value is stored
get_created_alwaysQueries(j, r) == Store_created(j, _job_get_info(j._id, r))

\* PBSJob.get_created
get_created(j, r) ==
    IF j._created # None
    THEN Result(j, << >>, j._created, NoExc)
    ELSE Store_created(j, _job_get_info(j._id, r))

\* get_started: g is the outcome of _job_get_info
Store_started(j, g) ==
    IF g.exc # NoExc THEN Result(j, g.cmds, None, g.exc)
    ELSE Result([j EXCEPT !._started = g.info.start_time],
                g.cmds, g.info.start_time, NoExc)

\* PBSJob.get_started
get_started(j, r) ==
    IF j._started # None
    THEN Result(j, << >>, j._started, NoExc)
    ELSE Store_started(j, _job_get_info(j._id, r))

\* get_finished: g is the outcome of _job_get_info
Store_finished(j, g) ==
    IF g.exc # NoExc THEN Result(j, g.cmds, None, g.exc)
    ELSE Result([j EXCEPT !._finished = g.info.end_time],
                g.cmds, g.info.end_time, NoExc)

\* PBSJob.get_finished
get_finished(j, r) ==
    IF j._finished # None
    THEN Result(j, << >>, j._finished, NoExc)
    ELSE Store_finished(j, _job_get_info(j._id, r))

\* get_execution_hosts: g is the outcome of _job_get_info
Store_execution_hosts(j, g) ==
    IF g.exc # NoExc THEN Result(j, g.cmds, None, g.exc)
    ELSE Result([j EXCEPT !._execution_hosts = g.info.exec_hosts],
                g.cmds, g.info.exec_hosts, NoExc)

\* PBSJob.get_execution_hosts, with _job_get_execution_hosts
get_execution_hosts(j, r) ==
    IF j._execution_hosts # None
    THEN Result(j, << >>, j._execution_hosts, NoExc)
    ELSE Store_execution_hosts(j, _job_get_info(j._id, r))

\* cancel setting the state before _job_cancel has succeeded
Canceled_beforeCheck(j, c) ==
    Result([j EXCEPT !._state = Some(CANCELED)], c.cmds, None, c.exc)

\* cancel: c is the outcome of _job_cancel
Canceled(j, c) ==
    IF c.exc # NoExc THEN Result(j, c.cmds, None, c.exc)
    ELSE Result([j EXCEPT !._state = Some(CANCELED)], c.cmds, None, NoExc)

\* PBSJob.cancel
cancel(j, r) == Canceled(j, _job_cancel(j._id, r))

\* PBSJob.run: the handle after the call, given the outcome s of _job_run
run(j, s) ==
    IF s.exc # NoExc THEN Result(j, s.cmds, None, s.exc)
    ELSE Result([j EXCEPT !._id = s.ret], s.cmds, None, NoExc)

\* list, line 582: words is out.split()
ListedIds(rm, words, cmds) ==
    IF words = << >>
    THEN [cmds |-> cmds, ret |-> None,
          exc |-> Exc("IndexError", "list index out of range")]
    ELSE [cmds |-> cmds, exc |-> NoExc,
          ret |-> Some(<< "[" \o rm \o "]-[" \o words[1] \o "]" >>)]

\* list running its command a second time when the first exits non-zero
list_retriesOnce(js, r) ==
    IF r.ret # 0
    THEN [cmds |-> << Cmd("qstat", "-a", r.ret), Cmd("qstat", "-a", r.ret) >>,
          ret |-> None,
          exc |-> Exc("NoSuccess",
                      "failed to list jobs via 'qstat': " \o r.out)]
    ELSE ListedIds(js.rm, Words(r.out), << Cmd("qstat", "-a", r.ret) >>)

\* PBSJobService.list
list(js, r) ==
    IF r.ret # 0
    THEN [cmds |-> << Cmd("qstat", "-a", r.ret) >>, ret |-> None,
          exc |-> Exc("NoSuccess",
                      "failed to list jobs via 'qstat': " \o r.out)]
    ELSE ListedIds(js.rm, Words(r.out), << Cmd("qstat", "-a", r.ret) >>)


(***************************************************************************)
(* _job_wait.  Time is counted in poll intervals: time.sleep(0.5) takes    *)
(* PollInterval, a remote command takes 0..MaxLatency.                     *)
(***************************************************************************)
PollInterval == 1

\* lines 524-526
WaitDone(state) ==
    state = Some(DONE) \/ state = Some(FAILED) \/ state = Some(CANCELED)

\* TimedOut without the test for a negative timeout
TimedOut_anyTimeout(timeout, time_now, time_start) ==
    time_now - time_start > timeout

\* TimedOut one poll interval late
TimedOut_late(timeout, time_now, time_start) ==
    timeout >= 0 /\ time_now - time_start > timeout + PollInterval

\* lines 532-534, with time_now read at line 533
TimedOut(timeout, time_now, time_start) ==
    timeout >= 0 /\ time_now - time_start > timeout

(***************************************************************************)
(* The state: the job service, the job handle, the position of the caller  *)
(* (idle, or at the head of the loop of _job_wait), the local variables of *)
(* _job_wait that are live there, and the record of the operation last     *)
(* called: its name and argument, the commands it issued, the value it     *)
(* returned, the exception it raised, whether it has returned, and, for    *)
(* wait, its local variables after its last iteration.                     *)
(***************************************************************************)
VARIABLES js, job, pc, w, last, tasks

vars == << js, job, pc, w, last, tasks >>

Called(op, arg, cmds, ret, exc, done) ==
    [op |-> op, arg |-> arg, cmds |-> cmds, ret |-> ret, exc |-> exc,
     done |-> done, locals |-> None]

NoWait == [timeout |-> 0, time_start |-> 0, time_now |-> 0, npolls |-> 0]

\* the background units of the asynchronous calls; one that runs nothing
Tasks == 1..MaxTasks

NoParse == [exc |-> NoExc, rm |-> "", pid |-> ""]

Free == [op |-> "", at |-> "free", p |-> NoParse, w |-> NoWait]

\* PBSJobService.init_instance, after initialize has found the tools
Init ==
    /\ js = [rm |-> Endpoint, njobs |-> 0, ppn |-> "8", is_cray |-> FALSE]
    /\ job = NoJob
    /\ pc = "idle"
    /\ w = NoWait
    /\ last = Called("init_instance", None, << >>, None, NoExc, TRUE)
    /\ tasks = [t \in Tasks |-> Free]

\* PBSJobService.create_job
Call_create_job ==
    /\ pc = "idle"
    /\ job = NoJob
    /\ \E jd \in JobDescriptions :
         IF Unsupported(jd) # {}
         THEN \E attribute \in Unsupported(jd) :
                /\ last' = Called("create_job", jd, << >>, None,
                                  Exc("BadParameter",
                                      "'jd." \o attribute
                                      \o "' is not supported by this adaptor"),
                                  TRUE)
                /\ UNCHANGED job
         ELSE /\ job' = init_instance(jd)
              /\ last' = Called("create_job", jd, << >>, Some("job"), NoExc, TRUE)
    /\ UNCHANGED << js, pc, w, tasks >>

\* an operation of the handle that is one call: the state after it
Returns(op, arg, res) ==
    /\ job' = res.job
    /\ last' = Called(op, arg, res.cmds, res.ret, res.exc, TRUE)
    /\ UNCHANGED << pc, w >>

\* PBSJob.run: s is the outcome of _job_run
Ran(s) ==
    /\ js' = s.js
    /\ Returns("run", None, run(job, s))

\* PBSJobService.list: l is what it returns or raises
\* list has returned or raised; out is what its command printed
Listed(out, l) ==
    /\ last' = [Called("list", None, l.cmds, l.ret, l.exc, TRUE)
                  EXCEPT !.locals = Some(out)]
    /\ UNCHANGED << js, job, pc, w >>

Call_list ==
    /\ pc = "idle"
    /\ \E r \in ListResponses : Listed(r.out, list(js, r))
    /\ UNCHANGED tasks

Call_run ==
    /\ pc = "idle"
    /\ job # NoJob
    /\ js.njobs < MaxSubmits
    /\ \E r \in QsubResponses(js.njobs) : Ran(_job_run(js, job.jd, r))
    /\ UNCHANGED tasks

Call_get_state ==
    /\ pc = "idle"
    /\ job # NoJob
    /\ \E r \in QstatResponses : Returns("get_state", None, get_state(job, r))
    /\ UNCHANGED << js, tasks >>

Call_get_id ==
    /\ pc = "idle"
    /\ job # NoJob
    /\ Returns("get_id", None, get_id(job))
    /\ UNCHANGED << js, tasks >>

Call_get_exit_code ==
    /\ pc = "idle"
    /\ job # NoJob
    /\ \E r \in QstatResponses :
         Returns("get_exit_code", None, get_exit_code(job, r))
    /\ UNCHANGED << js, tasks >>

Call_get_created ==
    /\ pc = "idle"
    /\ job # NoJob
    /\ \E r \in QstatResponses :
         Returns("get_created", None, get_created(job, r))
    /\ UNCHANGED << js, tasks >>

Call_get_started ==
    /\ pc = "idle"
    /\ job # NoJob
    /\ \E r \in QstatResponses :
         Returns("get_started", None, get_started(job, r))
    /\ UNCHANGED << js, tasks >>

Call_get_finished ==
    /\ pc = "idle"
    /\ job # NoJob
    /\ \E r \in QstatResponses :
         Returns("get_finished", None, get_finished(job, r))
    /\ UNCHANGED << js, tasks >>

Call_get_execution_hosts ==
    /\ pc = "idle"
    /\ job # NoJob
    /\ \E r \in QstatResponses :
         Returns("get_execution_hosts", None, get_execution_hosts(job, r))
    /\ UNCHANGED << js, tasks >>

Call_cancel ==
    /\ pc = "idle"
    /\ job # NoJob
    /\ \E r \in QdelResponses : Returns("cancel", None, cancel(job, r))
    /\ UNCHANGED << js, tasks >>

\* _job_wait, lines 518-520: p is what parse_id returned
WaitStarts(timeout, p) ==
    IF p.exc # NoExc
    THEN /\ last' = Called("wait", timeout, << >>, None, p.exc, TRUE)
         /\ UNCHANGED << pc, w >>
    ELSE /\ last' = Called("wait", timeout, << >>, None, NoExc, FALSE)
         /\ w' = [NoWait EXCEPT !.timeout = timeout]
         /\ pc' = "wait"

\* PBSJob.wait and _job_wait, lines 518-520: up to the loop
Call_wait ==
    /\ pc = "idle"
    /\ job # NoJob
    /\ \E timeout \in Timeouts : WaitStarts(timeout, parse_id(job._id))
    /\ UNCHANGED << js, job, tasks >>

\* _job_wait returns or raises: its local variables are recorded
WaitReturns(cmds, ret, exc, locals) ==
    /\ last' = [Called("wait", w.timeout, cmds, ret, exc, TRUE)
                  EXCEPT !.locals = Some(locals)]
    /\ w' = NoWait
    /\ pc' = "idle"

\* _job_wait, lines 522-535: one iteration of the loop.  The status query
\* takes latency, the sleep PollInterval; time.time() is read at line 533
\* only.
\* the local variables of _job_wait after the status query of an iteration
polled(state) ==
    [timeout    |-> w.timeout,
     time_start |-> w.time_start,
     time_now   |-> w.time_now,
     npolls     |-> w.npolls + 1,
     nsleeps    |-> w.npolls,
     state      |-> state]

\* and after its sleep and its reading of the clock
slept(state, now) ==
    [polled(state) EXCEPT !.nsleeps = @ + 1, !.time_now = now]

\* time.time() at line 533; the clock is not read when timeout is negative
Clock(latency) ==
    IF w.timeout >= 0 THEN w.time_now + latency + PollInterval ELSE w.time_now

\* the iteration going on to sleep and poll again after a failed query
Iteration_swallowFailure(g, now) ==
    IF g.exc = NoExc /\ WaitDone(g.info.job_state)
    THEN WaitReturns(last.cmds \o g.cmds, Some(TRUE), NoExc,
                     polled(g.info.job_state))
    ELSE IF TimedOut(w.timeout, now, w.time_start)
    THEN WaitReturns(last.cmds \o g.cmds, Some(FALSE), NoExc,
                     slept(g.info.job_state, now))
    ELSE /\ w' = [w EXCEPT !.npolls = @ + 1, !.time_now = now]
         /\ last' = [Called("wait", w.timeout, last.cmds \o g.cmds,
                            None, NoExc, FALSE)
                       EXCEPT !.locals = Some(slept(g.info.job_state, now))]
         /\ pc' = "wait"

\* lines 523-535: g is the outcome of _job_get_info, now the clock at line 533
Iteration(g, now) ==
    IF g.exc # NoExc
    THEN WaitReturns(last.cmds \o g.cmds, None, g.exc, polled(g.info.job_state))
    ELSE IF WaitDone(g.info.job_state)
    THEN WaitReturns(last.cmds \o g.cmds, Some(TRUE), NoExc,
                     polled(g.info.job_state))
    ELSE IF TimedOut(w.timeout, now, w.time_start)
    THEN WaitReturns(last.cmds \o g.cmds, Some(FALSE), NoExc,
                     slept(g.info.job_state, now))
    ELSE /\ w' = [w EXCEPT !.npolls = @ + 1, !.time_now = now]
         /\ last' = [Called("wait", w.timeout, last.cmds \o g.cmds,
                            None, NoExc, FALSE)
                       EXCEPT !.locals = Some(slept(g.info.job_state, now))]
         /\ pc' = "wait"

WaitLoop ==
    /\ pc = "wait"
    /\ w.npolls < MaxPolls
    /\ \E r \in QstatResponses, latency \in 0..MaxLatency :
         Iteration(_job_get_info(job._id, r), Clock(latency))
    /\ UNCHANGED << js, job, tasks >>

Next ==
    \/ Call_create_job
    \/ Call_list
    \/ Call_run
    \/ Call_get_state
    \/ Call_get_id
    \/ Call_get_exit_code
    \/ Call_get_created
    \/ Call_get_started
    \/ Call_get_finished
    \/ Call_get_execution_hosts
    \/ Call_cancel
    \/ Call_wait
    \/ WaitLoop

Spec == Init /\ [][Next]_vars




(***************************************************************************)
(* The asynchronous variant of the operations: a call is handed to a       *)
(* background unit, which runs the synchronous code above.  A unit is free,*)
(* or inside shell.run_sync (the command is in flight), or asleep in the   *)
(* loop of _job_wait.  The step that starts a call runs the code up to its *)
(* run_sync, the step that ends the command the code after it, on the      *)
(* handle and the service as they are then.  What a call returns goes to   *)
(* its caller's task object, which is not modelled.                        *)
(***************************************************************************)
QueryOps ==
    { "get_state", "get_exit_code", "get_created", "get_started",
      "get_finished", "get_execution_hosts" }

\* the synchronous operation op of the handle j, its status query answering r
Handler(op, j, r) ==
    CASE op = "get_state"           -> get_state(j, r)
      [] op = "get_exit_code"       -> get_exit_code(j, r)
      [] op = "get_created"         -> get_created(j, r)
      [] op = "get_started"         -> get_started(j, r)
      [] op = "get_finished"        -> get_finished(j, r)
      [] op = "get_execution_hosts" -> get_execution_hosts(j, r)

\* the code of op after its status query, g the outcome of _job_get_info
Store(op, j, g) ==
    CASE op = "get_state"           -> StoreState(j, g)
      [] op = "get_exit_code"       -> Store_exit_code(j, g)
      [] op = "get_created"         -> Store_created(j, g)
      [] op = "get_started"         -> Store_started(j, g)
      [] op = "get_finished"        -> Store_finished(j, g)
      [] op = "get_execution_hosts" -> Store_execution_hosts(j, g)

\* unit t enters run_sync for op
Enters(t, op, p, wl) ==
    tasks' = [tasks EXCEPT ![t] = [op |-> op, at |-> "run_sync",
                                   p |-> p, w |-> wl]]

\* unit t has finished its call
Leaves(t) == tasks' = [tasks EXCEPT ![t] = Free]

\* a call that parses the identifier first: p is what parse_id returned
EntersParsed(t, op, p, wl) ==
    IF p.exc # NoExc THEN UNCHANGED tasks ELSE Enters(t, op, p, wl)

\* get_state and the getters: no command when the value is cached or the
\* identifier does not parse
Async_query(t) ==
    /\ tasks[t] = Free
    /\ job # NoJob
    /\ \E op \in QueryOps :
         IF \A r \in QstatResponses : Handler(op, job, r).cmds = << >>
         THEN /\ \E r \in QstatResponses : job' = Handler(op, job, r).job
              /\ UNCHANGED tasks
         ELSE Enters(t, op, parse_id(job._id), NoWait) /\ UNCHANGED job
    /\ UNCHANGED << js, pc, w, last >>

Async_query_returns(t) ==
    /\ tasks[t].at = "run_sync"
    /\ tasks[t].op \in QueryOps
    /\ \E r \in QstatResponses :
         job' = Store(tasks[t].op, job, QueryInfo(tasks[t].p, r)).job
    /\ Leaves(t)
    /\ UNCHANGED << js, pc, w, last >>

Async_cancel(t) ==
    /\ tasks[t] = Free
    /\ job # NoJob
    /\ EntersParsed(t, "cancel", parse_id(job._id), NoWait)
    /\ UNCHANGED << js, job, pc, w, last >>

Async_cancel_returns(t) ==
    /\ tasks[t].at = "run_sync"
    /\ tasks[t].op = "cancel"
    /\ \E r \in QdelResponses :
         job' = Canceled(job, Delete(tasks[t].p, r)).job
    /\ Leaves(t)
    /\ UNCHANGED << js, pc, w, last >>

\* the submissions in flight
Submitting == { t \in Tasks : tasks[t].op = "run" }

Async_run(t) ==
    /\ tasks[t] = Free
    /\ job # NoJob
    /\ js.njobs + Cardinality(Submitting) < MaxSubmits
    /\ Enters(t, "run", NoParse, NoWait)
    /\ UNCHANGED << js, job, pc, w, last >>

\* s is the outcome of _job_run
AsyncRan(s) ==
    /\ js' = s.js
    /\ job' = run(job, s).job

Async_run_returns(t) ==
    /\ tasks[t].at = "run_sync"
    /\ tasks[t].op = "run"
    /\ \E r \in QsubResponses(js.njobs) : AsyncRan(_job_run(js, job.jd, r))
    /\ Leaves(t)
    /\ UNCHANGED << pc, w, last >>

Async_list(t) ==
    /\ tasks[t] = Free
    /\ Enters(t, "list", NoParse, NoWait)
    /\ UNCHANGED << js, job, pc, w, last >>

Async_list_returns(t) ==
    /\ tasks[t].at = "run_sync"
    /\ tasks[t].op = "list"
    /\ Leaves(t)
    /\ UNCHANGED << js, job, pc, w, last >>

\* the timeouts explored for asynchronous waits
AsyncTimeouts == { -1, 0 }

\* wait: lines 518-523, up to the first status query
Async_wait(t) ==
    /\ tasks[t] = Free
    /\ job # NoJob
    /\ \E timeout \in AsyncTimeouts :
         EntersParsed(t, "wait", parse_id(job._id),
                      [NoWait EXCEPT !.timeout = timeout])
    /\ UNCHANGED << js, job, pc, w, last >>

\* wait, lines 523-529: g is the outcome of _job_get_info
AsyncPolled(t, g) ==
    IF g.exc # NoExc \/ WaitDone(g.info.job_state)
    THEN Leaves(t)
    ELSE tasks' = [tasks EXCEPT ![t].at = "sleep", ![t].w.npolls = @ + 1]

Async_wait_polled(t) ==
    /\ tasks[t].at = "run_sync"
    /\ tasks[t].op = "wait"
    /\ \E r \in QstatResponses : AsyncPolled(t, QueryInfo(tasks[t].p, r))
    /\ UNCHANGED << js, job, pc, w, last >>

\* wait, lines 532-535 and 523: wl are the local variables, now the clock
AsyncSlept(t, wl, now) ==
    IF TimedOut(wl.timeout, now, wl.time_start)
    THEN Leaves(t)
    ELSE tasks' = [tasks EXCEPT ![t].at = "run_sync", ![t].w.time_now = now]

Async_wait_slept(t) ==
    /\ tasks[t].at = "sleep"
    /\ tasks[t].w.npolls < MaxPolls
    /\ \E latency \in 0..MaxLatency :
         AsyncSlept(t, tasks[t].w,
                    IF tasks[t].w.timeout >= 0
                    THEN tasks[t].w.time_now + latency + PollInterval
                    ELSE tasks[t].w.time_now)
    /\ UNCHANGED << js, job, pc, w, last >>

NextAsync ==
    \/ Call_create_job
    \/ \E t \in Tasks :
         \/ Async_query(t)
         \/ Async_query_returns(t)
         \/ Async_cancel(t)
         \/ Async_cancel_returns(t)
         \/ Async_run(t)
         \/ Async_run_returns(t)
         \/ Async_list(t)
         \/ Async_list_returns(t)
         \/ Async_wait(t)
         \/ Async_wait_polled(t)
         \/ Async_wait_slept(t)

SpecAsync == Init /\ [][NextAsync]_vars


(***************************************************************************)
(* _pbs_to_saga_jobstate on its own: the service is as after construction, *)
(* the call takes any text of at most two of these characters.             *)
(***************************************************************************)
StateLetters ==
    { "", "C", "E", "H", "Q", "R", "T", "W", "S", "X", "U", "B", "c", " " }

StateCodes == { a \o b : a \in StateLetters, b \in StateLetters }

InitTranslate ==
    /\ js = [rm |-> Endpoint, njobs |-> 0, ppn |-> "8", is_cray |-> FALSE]
    /\ job = NoJob
    /\ pc = "idle"
    /\ w = NoWait
    /\ tasks = [t \in Tasks |-> Free]
    /\ \E pbsjs \in StateCodes :
         last = Called("_pbs_to_saga_jobstate", pbsjs, << >>, None, NoExc,
                       FALSE)

Translate ==
    /\ last.op = "_pbs_to_saga_jobstate"
    /\ ~last.done
    /\ last' = Called("_pbs_to_saga_jobstate", last.arg, << >>,
                      Some(_pbs_to_saga_jobstate(last.arg)), NoExc, TRUE)
    /\ UNCHANGED << js, job, pc, w, tasks >>

SpecTranslate == InitTranslate /\ [][Translate]_vars


(***************************************************************************)
(* The parsing of _job_get_info on its own: the output of the status query *)
(* is any text of at most MaxLines of these lines, or the three lines of   *)
(* a finished job.  With each line goes the field of the status record it  *)
(* is for ("" for none) and the value it gives.                            *)
(***************************************************************************)
StatusLines ==
    << [text |-> "    job_state = C", field |-> "job_state", value |-> DONE],
       [text |-> "    job_state = Q", field |-> "job_state", value |-> PENDING],
       [text |-> "    exec_host = a/0+a/1", field |-> "exec_hosts",
        value |-> << "a/0", "a/1" >>],
       [text |-> "exec_host=b/3", field |-> "exec_hosts", value |-> << "b/3" >>],
       [text |-> "    exit_status = 0", field |-> "exit_status", value |-> "0"],
       [text |-> "    ctime = Mon", field |-> "create_time", value |-> "Mon"],
       [text |-> "    start_time = Tue", field |-> "start_time",
        value |-> "Tue"],
       [text |-> "    comp_time = Wed", field |-> "end_time", value |-> "Wed"],
       [text |-> "    queue = batch", field |-> "", value |-> ""],
       [text |-> "    Job_State = R", field |-> "", value |-> ""],
       [text |-> "    Resource_List.nodes = 1:ppn=8", field |-> "",
        value |-> ""],
       [text |-> "    ctime = a=b", field |-> "", value |-> ""],
       [text |-> "qstat: Unknown queue", field |-> "", value |-> ""],
       [text |-> "", field |-> "", value |-> ""] >>

MaxLines == 2

FinishedJob == << 1, 3, 5 >>

StatusOutputs ==
    UNION { [1..n -> DOMAIN StatusLines] : n \in 0..MaxLines } \cup { FinishedJob }

\* the text of the output whose lines are these lines of StatusLines
RECURSIVE StatusText(_)
StatusText(lines) ==
    IF lines = << >> THEN ""
    ELSE StatusLines[Head(lines)].text \o "\n" \o StatusText(Tail(lines))

InitParse ==
    /\ js = [rm |-> Endpoint, njobs |-> 0, ppn |-> "8", is_cray |-> FALSE]
    /\ job = NoJob
    /\ pc = "idle"
    /\ w = NoWait
    /\ tasks = [t \in Tasks |-> Free]
    /\ \E lines \in StatusOutputs :
         last = Called("_job_get_info", lines, << >>, None, NoExc, FALSE)

Parse ==
    /\ last.op = "_job_get_info"
    /\ ~last.done
    /\ last' = Called("_job_get_info", last.arg, << >>,
                      Some(ParseOutput(StatusText(last.arg))), NoExc, TRUE)
    /\ UNCHANGED << js, job, pc, w, tasks >>

SpecParse == InitParse /\ [][Parse]_vars


(***************************************************************************)
(* The identifier on its own: _job_run builds it from the endpoint of the  *)
(* service and the output of qsub, and parse_id splits it again.  The      *)
(* endpoint and the output are any of these texts.                         *)
(***************************************************************************)
Endpoints == { "pbs://h/", "", "a]", "]-", "[x]", "h-[1]", "a]-[b" }

QsubOutputs ==
    { "7.srv\n", "  8.srv  \n", "", "9[0].srv\n", "-[1", "1]-", "]",
      "x]-[y\n", "warn\n7.srv\n", "7 srv" }

InitCodec ==
    /\ js = [rm |-> Endpoint, njobs |-> 0, ppn |-> "8", is_cray |-> FALSE]
    /\ job = NoJob
    /\ pc = "idle"
    /\ w = NoWait
    /\ tasks = [t \in Tasks |-> Free]
    /\ \E rm \in Endpoints, out \in QsubOutputs :
         last = Called("parse_id", << rm, out >>, << >>, None, NoExc, FALSE)

\* parse_id(job_id): the two parts, or the exception raised
Call_parse_id ==
    /\ last.op = "parse_id"
    /\ ~last.done
    /\ LET id == job_id(last.arg[1], last.arg[2])
           p  == Parsed(id, id_re_match(id))
       IN  last' = Called("parse_id", last.arg, << >>,
                          IF p.exc = NoExc THEN Some(<< p.rm, p.pid >>)
                          ELSE None,
                          p.exc, TRUE)
    /\ UNCHANGED << js, job, pc, w, tasks >>

SpecCodec == InitCodec /\ [][Call_parse_id]_vars


(***************************************************************************)
(* _pbscript_generator on its own: the description has an executable and   *)
(* maybe a wall-time limit of at most MaxMinutes minutes and a total CPU   *)
(* count of at most MaxCpus; the service found at most MaxPpn cores per    *)
(* node, on a Cray or not.                                                 *)
(***************************************************************************)
MaxMinutes == 125
MaxCpus == 17
MaxPpn == 8

Optional(S) == { None } \cup { Some(x) : x \in S }

InitScript ==
    /\ js = [rm |-> Endpoint, njobs |-> 0, ppn |-> "8", is_cray |-> FALSE]
    /\ job = NoJob
    /\ pc = "idle"
    /\ w = NoWait
    /\ tasks = [t \in Tasks |-> Free]
    /\ \E wall_time_limit \in Optional(0..MaxMinutes),
          total_cpu_count \in Optional(1..MaxCpus),
          ppn \in 1..MaxPpn, is_cray \in BOOLEAN :
         last = Called("_pbscript_generator",
                       [jd |-> [EmptyDescription EXCEPT
                                  !.executable = Some("/bin/date"),
                                  !.wall_time_limit = wall_time_limit,
                                  !.total_cpu_count = total_cpu_count],
                        ppn |-> str(ppn), is_cray |-> is_cray],
                       << >>, None, NoExc, FALSE)

Call__pbscript_generator ==
    /\ last.op = "_pbscript_generator"
    /\ ~last.done
    /\ last' = Called("_pbscript_generator", last.arg, << >>,
                      Some(_pbscript_generator(last.arg.jd, last.arg.ppn,
                                               last.arg.is_cray)),
                      NoExc, TRUE)
    /\ UNCHANGED << js, job, pc, w, tasks >>

SpecScript == InitScript /\ [][Call__pbscript_generator]_vars


(***************************************************************************)
(* PBSJobService.initialize, which init_instance calls last: it looks for  *)
(* the four tools with which, asks each but qdel for its version, probes   *)
(* for aprun and reads the cores per node from the nodes pbsnodes lists.   *)
(* _commands is a dictionary: the order of its keys is any order.          *)
(***************************************************************************)
Tools == { "pbsnodes", "qstat", "qsub", "qdel" }

ToolOrders ==
    { o \in [1..4 -> Tools] : \A i, j \in 1..4 : o[i] = o[j] => i = j }

\* the version is reported as "version: x.y.z"
VersionResponses ==
    { [ret |-> 0, out |-> "version: 2.5.9\n"],
      [ret |-> 0, out |-> "2.5.9\n"],
      [ret |-> 1, out |-> "unknown option"] }

\* pbsnodes -a | grep np: grep exits 1 when no line matches
PbsnodesResponses ==
    { [ret |-> 0, out |-> "     np = 8\n     np = 8\n     np = 16\n"],
      [ret |-> 0, out |-> "     np = 8\n     np = 16\n"],
      [ret |-> 0, out |-> "     properties=np8\n"],
      [ret |-> 1, out |-> ""] }

InitializeResponses ==
    [which : [Tools -> {0, 1}], version : [Tools -> VersionResponses],
     aprun : {0, 1}, pbsnodes : PbsnodesResponses]

\* VersionQueried that asks qdel as well
VersionQueried_all(cmd) == TRUE

\* line 343: every tool but qdel is asked for its version
VersionQueried(cmd) == cmd # "qdel"

\* lines 336-358: the loop over the tools still to find; t is the exception
\* raised, the commands issued and _commands so far
RECURSIVE FindTools(_, _, _)
FindTools(order, r, t) ==
    IF order = << >> THEN t
    ELSE LET cmd     == Head(order)
             which   == Cmd("which", cmd, r.which[cmd])
             version == Cmd(cmd, "--version", r.version[cmd].ret)
             path    == "/usr/bin/" \o cmd
             words   == Words(Strip(r.version[cmd].out))
         IN  IF r.which[cmd] # 0
             THEN [t EXCEPT !.cmds = Append(@, which),
                            !.exc = Exc("NoSuccess",
                                        "Error finding PBS tools: which: no "
                                          \o cmd)]
             ELSE IF ~ VersionQueried(cmd)
             THEN FindTools(Tail(order), r,
                            [t EXCEPT !.cmds = Append(@, which),
                                      !.commands[cmd] =
                                          Some([path |-> path,
                                                version |-> "?"])])
             ELSE IF r.version[cmd].ret # 0
             THEN [t EXCEPT !.cmds = @ \o << which, version >>,
                            !.exc = Exc("NoSuccess",
                                        "Error finding PBS tools: "
                                          \o r.version[cmd].out)]
             ELSE IF Len(words) < 2
             THEN [t EXCEPT !.cmds = @ \o << which, version >>,
                            !.exc = Exc("IndexError",
                                        "list index out of range")]
             ELSE FindTools(Tail(order), r,
                            [t EXCEPT !.cmds = @ \o << which, version >>,
                                      !.commands[cmd] =
                                          Some([path |-> path,
                                                version |-> words[2]])])

\* lines 386-389: the values of the lines of the form key = value
NpValues(out) ==
    LET IsNp(line) == Len(Split(line, " = ")) = 2
        np         == SelectSeq(Split(out, "\n"), IsNp)
    IN  [i \in DOMAIN np |-> Strip(Split(np[i], " = ")[2])]

\* lines 390-394: the values with the most occurrences; max takes the first
\* of them in the order of the dictionary ppn_list
PpnChoices(np) ==
    { np[i] : i \in { i \in DOMAIN np :
        \A j \in DOMAIN np :
            Cardinality({ k \in DOMAIN np : np[k] = np[j] })
              <= Cardinality({ k \in DOMAIN np : np[k] = np[i] }) } }

InitInitialize ==
    /\ js = [rm |-> Endpoint, njobs |-> 0, ppn |-> "0", is_cray |-> FALSE]
    /\ job = NoJob
    /\ pc = "idle"
    /\ w = NoWait
    /\ tasks = [t \in Tasks |-> Free]
    /\ \E order \in ToolOrders :
         last = Called("initialize", order, << >>, None, NoExc, FALSE)

\* initialize has returned or raised; _commands is kept with the call
Initialized(order, cmds, exc, commands) ==
    [Called("initialize", order, cmds, None, exc, TRUE)
       EXCEPT !.locals = Some(commands)]

Call_initialize ==
    /\ last.op = "initialize"
    /\ ~last.done
    /\ \E r \in InitializeResponses :
         LET t    == FindTools(last.arg, r,
                               [exc |-> NoExc, cmds |-> << >>,
                                commands |-> [c \in Tools |-> None]])
             cmds == t.cmds \o << Cmd("which", "aprun", r.aprun),
                                  Cmd("pbsnodes", "-a | grep np",
                                      r.pbsnodes.ret) >>
             ppns == PpnChoices(NpValues(r.pbsnodes.out))
         IN  IF t.exc # NoExc
             THEN /\ last' = Initialized(last.arg, t.cmds, t.exc, t.commands)
                  /\ UNCHANGED js
             ELSE IF r.pbsnodes.ret # 0
             THEN /\ js' = [js EXCEPT !.is_cray = (r.aprun = 0)]
                  /\ last' = Initialized(last.arg, cmds,
                                 Exc("NoSuccess", "Error running pbsnodes: "
                                                    \o r.pbsnodes.out),
                                 t.commands)
             ELSE IF ppns = {}
             THEN /\ js' = [js EXCEPT !.is_cray = (r.aprun = 0)]
                  /\ last' = Initialized(last.arg, cmds,
                                 Exc("ValueError",
                                     "max() arg is an empty sequence"),
                                 t.commands)
             ELSE \E ppn \in ppns :
                  /\ js' = [js EXCEPT !.is_cray = (r.aprun = 0), !.ppn = ppn]
                  /\ last' = Initialized(last.arg, cmds, NoExc, t.commands)
    /\ UNCHANGED << job, pc, w, tasks >>

SpecInitialize == InitInitialize /\ [][Call_initialize]_vars





(***************************************************************************)
(* Vocabulary of the properties.                                           *)
(***************************************************************************)
Terminal == { Some(DONE), Some(FAILED), Some(CANCELED) }

\* the attribute whitelist the adaptor declares
DeclaredAttributes ==
    { "Name", "Executable", "Arguments", "Environment", "Input", "Output",
      "Error", "Queue", "Project", "WallTimeLimit", "WorkingDirectory",
      "TotalCPUCount" }

\* the attributes set on a description that are outside the whitelist
OutsideWhitelist(jd) ==
    { AttributeName[f] : f \in { g \in DOMAIN jd : jd[g] # None } }
        \ DeclaredAttributes

\* the raw id qsub printed for the submission the handle's identifier is from
SubmittedRawId == str(6 + js.njobs) \o ".srv"

IsPrefix(p, s) == Len(p) <= Len(s) /\ Slice(s, 1, Len(p)) = p

\* the operation has returned or raised, and these are wait's local variables
WaitEnded == last.op = "wait" /\ last.done /\ last.locals # None
Locals == Val(last.locals)

(***************************************************************************)
(* C1: a get_state call on a handle whose state is DONE, FAILED or         *)
(* CANCELED issues no remote command, raises nothing, returns the cached   *)
(* state and leaves the handle as it is, however often it is repeated and  *)
(* whatever the scheduler would answer.                                    *)
(***************************************************************************)
C1_PollOfTerminalIsCached ==
    [][ (job # NoJob /\ job._state \in Terminal /\ last'.op = "get_state")
        => /\ last'.cmds = << >>
           /\ last'.exc = NoExc
           /\ last'.ret = job._state
           /\ job' = job ]_vars

C1_Witness ==
    /\ job # NoJob
    /\ job._state = Some(DONE)
    /\ last.op = "get_state"
    /\ last.cmds = << >>
    /\ last.ret = Some(DONE)

(***************************************************************************)
(* C2: once the state of a handle is DONE, FAILED or CANCELED, no          *)
(* operation changes it to a different value.                              *)
(***************************************************************************)
C2_TerminalAbsorbing ==
    [][ (job # NoJob /\ job._state \in Terminal)
        => job'._state = job._state ]_vars

(***************************************************************************)
(* C3: once the state of a handle is DONE, FAILED or CANCELED, no          *)
(* operation on it issues a status query.                                  *)
(***************************************************************************)
C3_NoQueryAfterTerminal ==
    [][ (job # NoJob /\ job._state \in Terminal /\ last'.op # "list")
        => \A i \in DOMAIN last'.cmds : last'.cmds[i].tool # "qstat" ]_vars

C6_WaitOfTerminalIsCached ==
    (job # NoJob /\ job._state \in Terminal /\ last.op = "wait")
    => (last.cmds = << >> /\ (last.done => last.ret = Some(TRUE)))

(***************************************************************************)
(* C7: a successful run leaves the handle in state PENDING with its        *)
(* identifier set, and NEW is never the state of a handle that has an      *)
(* identifier.                                                             *)
(***************************************************************************)
C7_SubmittedIsNotNew ==
    job # NoJob
    => /\ (last.op = "run" /\ last.exc = NoExc)
            => (job._state = Some(PENDING) /\ job._id # None)
       /\ (job._state = Some(NEWSTATE)) => (job._id = None)

(***************************************************************************)
(* C8: create_job of a description with an attribute outside the declared  *)
(* whitelist raises BadParameter naming such an attribute, issues no       *)
(* remote command and creates no handle.                                   *)
(***************************************************************************)
C8_UnsupportedAttributeRejected ==
    (last.op = "create_job" /\ OutsideWhitelist(last.arg) # {})
    => /\ last.exc.type = "BadParameter"
       /\ \E a \in OutsideWhitelist(last.arg) :
            last.exc.msg = "'jd." \o a \o "' is not supported by this adaptor"
       /\ last.cmds = << >>
       /\ job = NoJob

C8_Witness ==
    /\ last.op = "create_job"
    /\ last.arg.job_contact # None
    /\ last.exc.type = "BadParameter"
    /\ job = NoJob

C10_QueryFailureIsAnError ==
    [][ ( /\ job # NoJob
          /\ job._id # None
          /\ job._state \notin Terminal
          /\ last'.op = "get_state"
          /\ Len(last'.cmds) = 1
          /\ last'.cmds[1].ret # 0 )
        => /\ last'.exc.type = "NoSuccess"
           /\ IsPrefix("Error retrieving job info via 'qstat'", last'.exc.msg)
           /\ job' = job ]_vars

C10_Witness ==
    /\ job # NoJob
    /\ last.op = "get_state"
    /\ last.exc.type = "NoSuccess"
    /\ job._state = Some(RUNNING)

(***************************************************************************)
(* C11: when a status query issued by the loop of wait on a submitted      *)
(* handle exits non-zero, wait has raised NoSuccess for that query, has    *)
(* returned neither true nor false, and the failed query is the last       *)
(* command it issued.                                                      *)
(***************************************************************************)
C11_WaitRaisesQueryFailure ==
    (job # NoJob /\ job._id # None /\ last.op = "wait")
    => \A i \in DOMAIN last.cmds :
         last.cmds[i].ret # 0
         => /\ i = Len(last.cmds)
            /\ last.done
            /\ pc = "idle"
            /\ last.ret = None
            /\ last.exc.type = "NoSuccess"
            /\ IsPrefix("Error retrieving job info via 'qstat'", last.exc.msg)

C11_Witness ==
    /\ job # NoJob
    /\ job._id # None
    /\ last.op = "wait"
    /\ last.exc.type = "NoSuccess"
    /\ Len(last.cmds) >= 2
    /\ last.cmds[1].ret = 0
    /\ last.cmds[Len(last.cmds)].ret # 0

(***************************************************************************)
(* C12: wait on a handle that was never submitted (no identifier) raises   *)
(* nothing, while wait on a submitted handle raises when a status query    *)
(* of its loop fails.                                                      *)
(***************************************************************************)
C12_WaitSwallowsOnlyUnsubmitted ==
    (job # NoJob /\ last.op = "wait")
    => /\ (job._id = None) => (last.exc = NoExc)
       /\ (job._id # None /\ \E i \in DOMAIN last.cmds : last.cmds[i].ret # 0)
            => (last.exc # NoExc)

\* a field of the handle after a response was stored: the value the response
\* has for it, or what the handle had if the response has none
Stored(before, after, value) ==
    IF value # None THEN after = value ELSE after = before

\* the handle after holds every field of the status record info
Populated(before, after, info) ==
    /\ after._state = info.job_state
    /\ Stored(before._execution_hosts, after._execution_hosts, info.exec_hosts)
    /\ Stored(before._exit_code, after._exit_code, info.exit_status)
    /\ Stored(before._created, after._created, info.create_time)
    /\ Stored(before._started, after._started, info.start_time)
    /\ Stored(before._finished, after._finished, info.end_time)

(***************************************************************************)
(* C13: a get_state call that succeeds on a submitted handle in a          *)
(* non-terminal state leaves the handle holding the state, the execution   *)
(* hosts, the exit code and the three timestamps of one status response,   *)
(* for every field the response has; the fields it has not stay as they    *)
(* were.                                                                   *)
(***************************************************************************)
C13_PollPopulatesAllFields ==
    [][ ( /\ job # NoJob
          /\ job._id # None
          /\ job._state \notin Terminal
          /\ last'.op = "get_state"
          /\ last'.exc = NoExc )
        => \E r \in QstatResponses :
             r.ret = 0 /\ Populated(job, job', QstatInfo[r.out]) ]_vars

(***************************************************************************)
(* C14: the exit code of a handle is set only when the state of the handle *)
(* is DONE, FAILED or CANCELED; it is unset whenever the state is NEW,     *)
(* PENDING, RUNNING or UNKNOWN.                                            *)
(***************************************************************************)
C14_ExitCodeOnlyWhenTerminal ==
    (job # NoJob /\ job._exit_code # None) => (job._state \in Terminal)

(***************************************************************************)
(* C15: once a handle has an identifier, no operation changes the          *)
(* identifier and no operation on the handle submits another job (the      *)
(* count of submitted jobs of the service stays as it is).                 *)
(***************************************************************************)
C15_IdentifierImmutable ==
    [][ (job # NoJob /\ job._id # None)
        => /\ job'._id = job._id
           /\ js'.njobs = js.njobs ]_vars

\* the units whose command is in flight on the shell of the service
InFlight == { t \in Tasks : tasks[t].at = "run_sync" }

(***************************************************************************)
(* C16: whatever operations are started asynchronously on the service and  *)
(* its handle, and however they interleave, at most one run_sync command   *)
(* is in flight on the shell of the service at any time.                   *)
(***************************************************************************)
C16_OneCommandInFlight == Cardinality(InFlight) <= 1

(***************************************************************************)
(* C17: a remote command that exits non-zero is the last command of its    *)
(* operation, which raises NoSuccess and returns nothing; only wait issues *)
(* more than one command, all of them status queries, and it issues        *)
(* another one only after a query that exited zero and reported a state    *)
(* other than DONE, FAILED and CANCELED.                                   *)
(***************************************************************************)
C17_NoRetry ==
    /\ \A i \in DOMAIN last.cmds :
         last.cmds[i].ret # 0
         => /\ i = Len(last.cmds)
            /\ last.done
            /\ last.ret = None
            /\ last.exc.type = "NoSuccess"
    /\ Len(last.cmds) > 1
         => /\ last.op = "wait"
            /\ \A i \in DOMAIN last.cmds : last.cmds[i].tool = "qstat"
    /\ (last.op = "wait" /\ ~last.done /\ last.cmds # << >>)
         => /\ last.cmds[Len(last.cmds)].ret = 0
            /\ last.locals # None
            /\ Locals.npolls = Len(last.cmds)
            /\ Locals.state \notin Terminal

C17_Witness ==
    /\ last.op = "list"
    /\ last.done
    /\ Len(last.cmds) = 1
    /\ last.cmds[1].ret # 0
    /\ last.exc.type = "NoSuccess"

(***************************************************************************)
(* C18: when qsub exits non-zero, run raises NoSuccess with a message that *)
(* holds the output of qsub and the script rendered from the description   *)
(* of the handle; the handle is as it was, so one that had no identifier   *)
(* still has none and is in state NEW, and the count of submitted jobs of  *)
(* the service is as it was.                                               *)
(***************************************************************************)
C18_FailedSubmit ==
    [][ ( /\ job # NoJob
          /\ last'.op = "run"
          /\ last'.cmds # << >>
          /\ last'.cmds[1].ret # 0 )
        => /\ last'.exc.type = "NoSuccess"
           /\ last'.cmds[1].arg
                = _pbscript_generator(job.jd, js.ppn, js.is_cray)
           /\ \E r \in QsubResponses(js.njobs) :
                /\ r.ret # 0
                /\ last'.exc.msg = "Error running 'qsub': " \o r.out
                                   \o ". Script was: " \o last'.cmds[1].arg
           /\ job' = job
           /\ (job._id = None)
                => (job'._id = None /\ job'._state = Some(NEWSTATE))
           /\ js'.njobs = js.njobs ]_vars

C18_Witness ==
    /\ job # NoJob
    /\ last.op = "run"
    /\ last.exc.type = "NoSuccess"
    /\ job._id = None
    /\ job._state = Some(NEWSTATE)
    /\ js.njobs = 0

\* the table of scheduler codes and the states they stand for
TranslationTable ==
    [ code \in { "C", "E", "H", "Q", "R", "T", "W", "S", "X" } |->
        IF code = "C" THEN "Done"
        ELSE IF code \in { "E", "R", "T" } THEN "Running"
        ELSE IF code \in { "H", "Q", "W", "S" } THEN "Pending"
        ELSE "Canceled" ]

(***************************************************************************)
(* C19: _pbs_to_saga_jobstate returns for each of the codes C, E, H, Q, R, *)
(* T, W, S, X the state of the table and for any other text, the empty     *)
(* text and texts of several letters among them, UNKNOWN; it raises        *)
(* nothing and never returns NEW or FAILED.                                *)
(***************************************************************************)
C19_TranslationTable ==
    (last.op = "_pbs_to_saga_jobstate" /\ last.done)
    => /\ last.exc = NoExc
       /\ last.ret # None
       /\ IF last.arg \in DOMAIN TranslationTable
          THEN Val(last.ret) = TranslationTable[last.arg]
          ELSE Val(last.ret) = "Unknown"
       /\ Val(last.ret) \notin { "New", "Failed" }

C19_Witness ==
    /\ last.op = "_pbs_to_saga_jobstate"
    /\ last.done
    /\ last.arg = "CC"
    /\ last.ret = Some("Unknown")

\* the status record after a line: its field has the value of the line
AfterLine(info, line) ==
    IF line.field = "" THEN info
    ELSE [info EXCEPT ![line.field] = Some(line.value)]

\* the status record after these lines, in their order
RECURSIVE AfterLines(_, _)
AfterLines(info, lines) ==
    IF lines = << >> THEN info
    ELSE AfterLines(AfterLine(info, StatusLines[Head(lines)]), Tail(lines))

(***************************************************************************)
(* C20: the status record parsed from an output has, for each of the six   *)
(* keys, the value of the last line of the form key = value with exactly   *)
(* one "=" (for exec_host the list of the parts between "+"), and nothing  *)
(* from any other line or key; no line raises.  The output job_state = C,  *)
(* exec_host = a/0+a/1, exit_status = 0 gives DONE, the hosts a/0 and a/1  *)
(* and exit code 0.                                                        *)
(***************************************************************************)
C20_StatusRecordParsing ==
    (last.op = "_job_get_info" /\ last.done)
    => /\ last.exc = NoExc
       /\ last.ret = Some(AfterLines(NoInfo, last.arg))
       /\ (last.arg = FinishedJob)
            => /\ Val(last.ret).job_state = Some("Done")
               /\ Val(last.ret).exec_hosts = Some(<< "a/0", "a/1" >>)
               /\ Val(last.ret).exit_status = Some("0")
               /\ Val(last.ret).create_time = None

C20_Witness ==
    /\ last.op = "_job_get_info"
    /\ last.done
    /\ last.arg = << 12, 3 >>
    /\ Val(last.ret).create_time = None
    /\ Val(last.ret).exec_hosts = Some(<< "a/0", "a/1" >>)

Contains(s, sub) == Find(s, sub, 1) # 0

(***************************************************************************)
(* C21: for every endpoint and raw id (the trimmed output of qsub) neither *)
(* of which contains "]-[", parse_id of the identifier _job_run builds     *)
(* from them raises nothing and returns exactly the endpoint and the raw   *)
(* id.                                                                     *)
(***************************************************************************)
C21_IdentifierRoundTrip ==
    (/\ last.op = "parse_id"
     /\ last.done
     /\ ~ Contains(last.arg[1], "]-[")
     /\ ~ Contains(Strip(last.arg[2]), "]-["))
    => /\ last.exc = NoExc
       /\ last.ret = Some(<< last.arg[1], Strip(last.arg[2]) >>)

\* the script generated, for a call of _pbscript_generator that returned
Generated ==
    /\ last.op = "_pbscript_generator"
    /\ last.done

\* ceil(t / p): the N with N*p >= t and (N-1)*p < t
Ceil(t, p) == CHOOSE N \in 0..t : N * p >= t /\ (N - 1) * p < t

(***************************************************************************)
(* C22: not on a Cray, for every total CPU count t >= 1 and every p >= 1   *)
(* cores per node the script has the directive nodes=N:ppn=p with          *)
(* N = ceil(t / p), and no other nodes directive (17 and 8 give nodes=3,   *)
(* 16 and 8 give nodes=2); without a total CPU count the script has no     *)
(* resource directive.                                                     *)
(***************************************************************************)
C22_NodesDirective ==
    (Generated /\ ~last.arg.is_cray)
    => LET jd     == last.arg.jd
           p      == int(last.arg.ppn)
           script == Val(last.ret)
           at     == Find(script, "#PBS -l nodes=", 1)
       IN  IF jd.total_cpu_count = None
           THEN /\ at = 0
                /\ ~ Contains(script, "#PBS -l size=")
           ELSE LET t == Val(jd.total_cpu_count)
                    directive == "#PBS -l nodes=" \o str(Ceil(t, p))
                                   \o ":ppn=" \o str(p) \o " \n"
                IN  /\ at # 0
                    /\ Slice(script, at, at + Len(directive) - 1) = directive
                    /\ Find(script, "#PBS -l nodes=", at + 1) = 0
                    /\ (t = 17 /\ p = 8) => Contains(script, "nodes=3:ppn=8")
                    /\ (t = 16 /\ p = 8) => Contains(script, "nodes=2:ppn=8")

C22_Witness ==
    /\ Generated
    /\ ~last.arg.is_cray
    /\ last.arg.jd.total_cpu_count = Some(17)
    /\ last.arg.ppn = "8"
    /\ Contains(Val(last.ret), "#PBS -l nodes=3:ppn=8 \n")

\* n written as two digits
TwoDigits(n) == IF n < 10 THEN "0" \o str(n) ELSE str(n)

(***************************************************************************)
(* C23: a wall-time limit of m minutes gives the directive with the        *)
(* walltime value HH:MM:00, HH = m div 60 and MM = m mod 60, each written  *)
(* as two digits; 125 minutes give 02:05:00.                               *)
(***************************************************************************)
C23_WallTimeTwoDigits ==
    (Generated /\ last.arg.jd.wall_time_limit # None)
    => LET m == Val(last.arg.jd.wall_time_limit)
       IN  /\ Contains(Val(last.ret),
                       "#PBS -l walltime=" \o TwoDigits(m \div 60) \o ":"
                         \o TwoDigits(m % 60) \o ":00")
           /\ m = 125 => Contains(Val(last.ret), "walltime=02:05:00")

\* initialize has returned or raised
InitializeEnded ==
    /\ last.op = "initialize"
    /\ last.done

\* the command was issued by the last call, with exit code ret
Issued(tool, arg, ret) ==
    \E i \in DOMAIN last.cmds : last.cmds[i] = Cmd(tool, arg, ret)

CrayProbed == \E ret \in {0, 1} : Issued("which", "aprun", ret)

NodesListed == \E ret \in {0, 1} : Issued("pbsnodes", "-a | grep np", ret)

(***************************************************************************)
(* C24: initialize returns only if which found all four tools; if which    *)
(* failed for one of them initialize raises and issues neither the probe   *)
(* for aprun nor the listing of the nodes; a failed probe for aprun sets   *)
(* is_cray to false and fails nothing: the nodes are listed next, and      *)
(* initialize then raises only if the listing failed or no node line gave  *)
(* a value; qdel is never asked for its version.                           *)
(***************************************************************************)
C24_Initialize ==
    InitializeEnded
    => /\ last.exc = NoExc => \A cmd \in Tools : Issued("which", cmd, 0)
       /\ \A cmd \in Tools :
            Issued("which", cmd, 1)
            => /\ last.exc.type = "NoSuccess"
               /\ ~ CrayProbed
               /\ ~ NodesListed
       /\ Issued("which", "aprun", 1)
            => /\ ~ js.is_cray
               /\ last.cmds[Len(last.cmds)].tool = "pbsnodes"
               /\ Issued("pbsnodes", "-a | grep np", 0)
                    => last.exc.type \in { "", "ValueError" }
               /\ (Issued("pbsnodes", "-a | grep np", 0) /\ js.ppn # "0")
                    => last.exc = NoExc
       /\ \A ret \in {0, 1} : ~ Issued("qdel", "--version", ret)

C24_Witness ==
    /\ InitializeEnded
    /\ last.exc = NoExc
    /\ Issued("which", "aprun", 1)
    /\ ~ js.is_cray
    /\ js.ppn = "16"
    /\ Val(last.locals)["qdel"] = Some([path |-> "/usr/bin/qdel",
                                        version |-> "?"])
    /\ Val(last.locals)["qsub"] = Some([path |-> "/usr/bin/qsub",
                                        version |-> "2.5.9"])

\* the identifiers of the jobs these lines list, one for each line
RECURSIVE IdsOfLines(_, _)
IdsOfLines(rm, lines) ==
    IF lines = << >> THEN << >>
    ELSE IF Words(Head(lines)) = << >> THEN IdsOfLines(rm, Tail(lines))
    ELSE << "[" \o rm \o "]-[" \o Words(Head(lines))[1] \o "]" >>
         \o IdsOfLines(rm, Tail(lines))

(***************************************************************************)
(* C25: list returns the identifiers of all the jobs its command printed,  *)
(* one for each line, each made of the endpoint of the service and the raw *)
(* id at the start of the line; it raises the listing error (NoSuccess)    *)
(* when the command exits non-zero.                                        *)
(***************************************************************************)
C25_ListAllJobs ==
    (last.op = "list" /\ last.done)
    => IF last.cmds[1].ret # 0
       THEN /\ last.exc.type = "NoSuccess"
            /\ last.ret = None
       ELSE /\ last.exc = NoExc
            /\ last.ret = Some(IdsOfLines(js.rm,
                                          Split(Val(last.locals), "\n")))

CanonicalStates ==
    { NEWSTATE, PENDING, RUNNING, DONE, CANCELED, FAILED, UNKNOWN }

(***************************************************************************)
(* C26: in every reachable state the state of the handle is one of NEW,    *)
(* PENDING, RUNNING, DONE, CANCELED, FAILED and UNKNOWN, never None; a     *)
(* status query that succeeds with an output that has no job_state line    *)
(* does not leave the handle without a state.                              *)
(***************************************************************************)
C26_StateIsCanonical ==
    job # NoJob
    => /\ job._state # None
       /\ Val(job._state) \in CanonicalStates

(***************************************************************************)
(* C27: when wait returns true the state stored on the handle is DONE,     *)
(* FAILED or CANCELED, so that the get_state after it answers from the     *)
(* handle without a remote command.                                        *)
(***************************************************************************)
C27_WaitStoresTerminal ==
    (last.op = "wait" /\ last.done /\ last.ret = Some(TRUE))
    => job._state \in Terminal

\* a status query of the last call exited non-zero
QueryFailed == \E i \in DOMAIN last.cmds : last.cmds[i].ret # 0

\* at the head of the loop of a wait with a timeout >= 0: each iteration so
\* far took at least the poll interval, and the time elapsed is within the
\* timeout, so that at most timeout / PollInterval + 1 iterations are taken
WaitVariant ==
    (pc = "wait" /\ w.timeout >= 0)
    => /\ w.npolls * PollInterval <= w.time_now - w.time_start
       /\ w.time_now - w.time_start <= w.timeout
       /\ w.npolls < MaxPolls

\* wait with a negative timeout has ended in no other way than by a terminal
\* state reported or a failed status query
NegativeWaitEnds ==
    (last.op = "wait" /\ last.done /\ last.arg < 0)
    => \/ /\ last.ret = Some(TRUE)
          /\ last.locals # None
          /\ Locals.state \in Terminal
       \/ QueryFailed

(***************************************************************************)
(* C28: wait with a timeout >= 0, every status query returning and the     *)
(* clock advancing by the poll interval in each iteration, ends after a    *)
(* bounded number of iterations (it returns true or false or raises);      *)
(* wait with a negative timeout ends only when a terminal state was        *)
(* reported or a status query failed.                                      *)
(***************************************************************************)
C28_WaitTerminates ==
    /\ WaitVariant
    /\ NegativeWaitEnds

\* the state of the handle once the get_state of unit u, whose status query
\* is in flight, has finished with the response r
AfterPoll(j, u, r) == Store("get_state", j, QueryInfo(tasks[u].p, r)).job._state

(***************************************************************************)
(* C29: with cancel and get_state running asynchronously on one handle,    *)
(* when a cancel completes and stores CANCELED while the status query of a *)
(* get_state is in flight (it was started before the cancel completed),    *)
(* the result of that query does not overwrite it: whatever the query      *)
(* answers, the state is CANCELED after the get_state has finished too.    *)
(***************************************************************************)
C29_CancelNotOverwritten ==
    [][ \A t, u \in Tasks :
          (/\ tasks[t].op = "cancel"
           /\ tasks[t].at = "run_sync"
           /\ tasks'[t] = Free
           /\ job'._state = Some(CANCELED)
           /\ tasks[u].op = "get_state"
           /\ tasks[u].at = "run_sync")
          => \A r \in QstatResponses :
               AfterPoll(job', u, r) = Some(CANCELED) ]_vars

\* the getter of each attribute the handle caches
GetterOf ==
    [_exit_code       |-> "get_exit_code",
     _execution_hosts |-> "get_execution_hosts",
     _created         |-> "get_created",
     _started         |-> "get_started",
     _finished        |-> "get_finished"]

\* a step from a handle that holds a value of the attribute f: the value
\* stays, and if the step is a call of the getter of f it returns the value
\* and issues no command
KeepsStored(f) ==
    (job # NoJob /\ job[f] # None)
    => /\ job'[f] = job[f]
       /\ last'.op = GetterOf[f]
            => /\ last'.cmds = << >>
               /\ last'.exc = NoExc
               /\ last'.ret = job[f]

\* the commands of a call are exactly one status query
OneStatusQuery(cmds) == Len(cmds) = 1 /\ cmds[1].tool = "qstat"

=============================================================================
